---- MODULE Spec2Model ----
(***************************************************************************)
(* A model of citrex.client.CitrexClient (src/citrex/client.py): one       *)
(* client instance, used by one thread.  The exchange (HTTP) and the       *)
(* blockchain node (JSON-RPC) are the environment: every answer they can   *)
(* give is an input of the action that reads it.                           *)
(*                                                                         *)
(* Python values are modelled by strings: the attribute that was never     *)
(* assigned is "unset", None is "None", the empty dict is "EmptyDict".     *)
(* Amounts in wei do not fit TLC's integers and are sequences of decimal   *)
(* digits, most significant first.                                         *)
(***************************************************************************)
EXTENDS Integers, Sequences, FiniteSets, TLC

VARIABLES
    phase,          \* "new" | "ready" | "failed": the life of the instance
    wallet,         \* self.wallet: "unset" | "account"
    subaccount_id,  \* self.subaccount_id: "unset" or an integer
    session_cookie, \* self.session_cookie
    last,           \* the last call of a client method and how it ended
    http,           \* the HTTP requests the last call sent, in order
    signed,         \* the messages the last call signed
    loginCalls,     \* the invocations of login() within the last call
    session,        \* "LoggedOut" | "LoggedIn": the session as the caller knows it
    lastMsg,        \* the keyword arguments of the last Order message built
    chain           \* the deposit / wait_for_transaction call in progress

vars == <<phase, wallet, subaccount_id, session_cookie, last, http, signed,
          loginCalls, session, lastMsg, chain>>

-----------------------------------------------------------------------------
(* Bounds of the model *)

\* the largest timeout a caller passes to wait_for_transaction explicitly
MaxTimeout == 3

\* the largest mantissa of a quantity or price given by a caller
MaxMantissa == 2

-----------------------------------------------------------------------------
(* Program constants *)

\* wait_for_transaction(self, txn_hash, timeout=60)
DefaultTimeout == 60

\* the 18 decimal places of Decimal(1e18)
Decimals == 18

\* if response.status_code != 200
StatusOk == 200

\* if not (0 <= subaccount_id <= 255)
MinSubaccount == 0

MaxSubaccount == 255

private_functions ==
    { "/v1/withdraw", "/v1/order", "/v1/order/cancel-and-replace",
      "/v1/openOrders", "/v1/orders", "/v1/balances", "/v1/positionRisk",
      "/v1/approved-signers", "/v1/session/login",
      "/v1/referral/add-referee", "/v1/session/logout",
      "/v1/account-health" }

public_functions ==
    { "/v1/products", "/v1/products/{product_symbol}",
      "/v1/ticker/24hr?symbol={symbol}", "/v1/trade-history", "/v1/time",
      "/v1/uiKlines", "/v1/ticker/24hr", "/v1/depth" }

\* OrderType
LIMIT == 0

LIMIT_MAKER == 1

MARKET == 2

OrderTypes == {LIMIT, LIMIT_MAKER, MARKET}

-----------------------------------------------------------------------------
(* The environment's answers *)

\* routes a caller may hand to send_message_to_endpoint that are in no list
UnknownRoutes == { "/v1/session/status", "/v1/nowhere" }

Tokens == { "t1", "t2" }

StatusCodes == { StatusOk, 401, 500 }

\* what the exchange answers to a request: a status and a body, or nothing
\* when the transport fails (requests raises; exc is the exception's text)
HttpAnswers == [exc : {"none"}, status : StatusCodes, body : {"json", "notjson"}]

TransportFailures ==
    [exc : {"connection refused", "user already referred"},
     status : {0}, body : {"none"}]

Responses == HttpAnswers \cup TransportFailures

\* the bodies of a login answer: {"value": token}, {} , {"value": ""},
\* the JSON null, and a body that is no JSON
LoginBodies == Tokens \cup {"novalue", "emptyvalue", "null", "notjson"}

LoginResponses ==
    [exc : {"none"}, status : StatusCodes, body : LoginBodies]
        \cup [exc : {"connection refused"}, status : {0}, body : {"none"}]

NoResponse == [exc |-> "unsent", status |-> 0, body |-> "none"]

-----------------------------------------------------------------------------
(* Amounts *)

RECURSIVE Digits(_)
\* str(n) of a natural number, as digits
Digits(n) == IF n < 10 THEN <<n>> ELSE Append(Digits(n \div 10), n % 10)

RECURSIVE Zeros(_)
Zeros(k) == IF k <= 0 THEN <<>> ELSE <<0>> \o Zeros(k - 1)

\* a caller's decimal m * 10^-e (what str() of the argument reads as)
Quantities == [m : 1..MaxMantissa, e : 0..1]

\* the quantities and prices of orders: those, and 1.5, 20000.25 and two
\* decimals with nineteen decimal places, 0.1 * 10^-18 and 2.5 * 10^-18
OrderQuantities ==
    Quantities \cup { [m |-> 15, e |-> 1], [m |-> 2000025, e |-> 2],
                      [m |-> 1, e |-> 19], [m |-> 25, e |-> 19] }

\* int(Decimal(str(q)) * Decimal(1e18))
Scale(q) ==
    IF q.e <= Decimals
    THEN Digits(q.m) \o Zeros(Decimals - q.e)
    ELSE IF Len(Digits(q.m)) > q.e - Decimals
         THEN SubSeq(Digits(q.m), 1, Len(Digits(q.m)) - (q.e - Decimals))
         ELSE <<0>>

\* a < b on amounts without leading zeros
Less(a, b) ==
    \/ Len(a) < Len(b)
    \/ /\ Len(a) = Len(b)
       /\ \E i \in 1..Len(a) :
            /\ a[i] < b[i]
            /\ \A j \in 1..(i - 1) : a[j] = b[j]

RECURSIVE AddCarry(_, _, _)
\* a + b + carry on natural numbers written as digits
AddCarry(a, b, carry) ==
    IF a = <<>> /\ b = <<>>
    THEN IF carry = 0 THEN <<>> ELSE <<carry>>
    ELSE LET da == IF a = <<>> THEN 0 ELSE a[Len(a)]
             db == IF b = <<>> THEN 0 ELSE b[Len(b)]
             ra == IF a = <<>> THEN <<>> ELSE SubSeq(a, 1, Len(a) - 1)
             rb == IF b = <<>> THEN <<>> ELSE SubSeq(b, 1, Len(b) - 1)
             s == da + db + carry
         IN  Append(AddCarry(ra, rb, s \div 10), s % 10)

\* a + b of Python's integers
Plus(a, b) == AddCarry(a, b, 0)

\* a * 10^k of Python's integers
Shift(a, k) == IF a = <<0>> THEN a ELSE a \o Zeros(k)

\* the readings of the clock, int(time.time() * 1000)
Timestamps ==
    { <<1, 7, 0, 0, 0, 0, 0, 0, 0, 0, 0, 0, 0>>,
      <<1, 6, 9, 9, 9, 9, 9, 9, 9, 9, 9, 9, 9>> }

\* the nonces a caller passes: the default 0, or one of its own
Nonces == { <<0>>, <<4, 2>> }

\* 1000 * 60 * 60 * 24
MillisPerDay == 1000 * 60 * 60 * 24

\* a slip: ts + 1000 * 60 * 60 * 24, left in milliseconds
ExpirationInMillis(ts) == Plus(ts, Digits(MillisPerDay))

\* (ts + 1000 * 60 * 60 * 24) * 1000
Expiration(ts) == Shift(Plus(ts, Digits(MillisPerDay)), 3)

\* if nonce == 0: nonce = ts
DefaultNonce(nonce, ts) == IF nonce = <<0>> THEN ts ELSE nonce

\* the allowances the node reports: none, or a whole number of tokens
Allowances == {<<0>>} \cup { Scale(q) : q \in {x \in Quantities : x.e = 0} }

-----------------------------------------------------------------------------
(* Python values *)

\* an attribute that was never assigned, and one that holds n
Unset == <<>>

Some(n) == <<n>>

\* if private_key: (None and the empty string are falsy)
PrivateKeys == {"None", "", "0xkey"}

Truthy(key) == key \notin {"None", ""}

\* how a call of a method ended
Return(val, reqs, nsigned, cookie, nlogin) ==
    [outcome |-> "return", err |-> "none", errResp |-> NoResponse, val |-> val,
     reqs |-> reqs, nsigned |-> nsigned, cookie |-> cookie, nlogin |-> nlogin]

Raise(err, errResp, reqs, nsigned, cookie, nlogin) ==
    [outcome |-> "raise", err |-> err, errResp |-> errResp, val |-> "none",
     reqs |-> reqs, nsigned |-> nsigned, cookie |-> cookie, nlogin |-> nlogin]

\* one HTTP request as sent: cookie is the session credential in its
\* "cookie" header ("noheader" when the request carries no such header)
Req(endpoint, method, cookie, resp) ==
    [endpoint |-> endpoint, method |-> method, cookie |-> cookie, resp |-> resp]

NoMsg == [built |-> FALSE, orderType |-> -1, hasPrice |-> FALSE,
          price |-> <<>>, quantity |-> <<>>, nonce |-> <<>>,
          expiration |-> <<>>]

IdleChain ==
    [waitFor |-> "none", T |-> 0, timeout |-> 0, lookups |-> 0,
     pendingOnly |-> TRUE, lastAnswer |-> "none", txs |-> <<>>,
     allowance |-> <<>>, required |-> <<>>, approveReceipt |-> "none",
     nodeErrors |-> 0]

\* the arguments of a call that the properties speak of
NoArgs == [orderType |-> -1, priceGiven |-> FALSE, keyGiven |-> FALSE,
           configOk |-> TRUE, sub |-> 0, endpoint |-> "none",
           cookieBefore |-> "none", quantity |-> [m |-> 0, e |-> 0],
           price |-> [m |-> 0, e |-> 0], nonce |-> <<>>, ts |-> <<>>]

NoCall == [op |-> "none", outcome |-> "return", err |-> "none",
           errResp |-> NoResponse, val |-> "none", args |-> NoArgs]

-----------------------------------------------------------------------------
(* The endpoint authorization check and the dispatcher *)

\* if not self.wallet: (an account object is truthy)
WalletFalsy(w) == w \notin {"unset", "account"}

\* "True", or the exception raised
_validate_function(endpoint, w) ==
    IF endpoint \notin private_functions \cup public_functions
    THEN "ClientError"
    ELSE IF endpoint \in public_functions
    THEN "True"
    ELSE IF w = "unset"
    THEN "AttributeError"
    ELSE IF WalletFalsy(w)
    THEN "UserInputValidationError"
    ELSE "True"

\* the "cookie" header: connectedAddress={self.session_cookie}
authenticated_headers(cookie) == cookie

\* what a requests call without a status check does with the answer:
\* requests raises, or .json() parses the body
UncheckedJson(req, nsigned, cookie) ==
    IF req.resp.exc # "none"
    THEN Raise("ConnectionError", NoResponse, <<req>>, nsigned, cookie, 0)
    ELSE IF req.resp.body = "notjson"
    THEN Raise("JSONDecodeError", NoResponse, <<req>>, nsigned, cookie, 0)
    ELSE Return("json", <<req>>, nsigned, cookie, 0)

\* the same with: if response.status_code != 200: raise Exception(...)
CheckedJson(req, nsigned, cookie) ==
    IF req.resp.exc # "none"
    THEN Raise("ConnectionError", NoResponse, <<req>>, nsigned, cookie, 0)
    ELSE IF req.resp.status # StatusOk
    THEN Raise("Exception", req.resp, <<req>>, nsigned, cookie, 0)
    ELSE IF req.resp.body = "notjson"
    THEN Raise("JSONDecodeError", NoResponse, <<req>>, nsigned, cookie, 0)
    ELSE Return("json", <<req>>, nsigned, cookie, 0)

send_message_to_endpoint(endpoint, method, authenticated, resp, nsigned, w, cookie) ==
    LET v == _validate_function(endpoint, w)
    IN  IF v # "True"
        THEN Raise(v, NoResponse, <<>>, nsigned, cookie, 0)
        ELSE CheckedJson(
                Req(endpoint, method,
                    IF authenticated THEN authenticated_headers(cookie)
                                     ELSE "noheader",
                    resp),
                nsigned, cookie)

\* self.public_key (get_shared_params, params=...) of a client without a key
NoPublicKey(cookie) == Raise("AttributeError", NoResponse, <<>>, 0, cookie, 0)

-----------------------------------------------------------------------------
(* The session *)

\* response.get("value") of a login body that is a JSON object
LoginValue(body) ==
    IF body \in Tokens THEN body
    ELSE IF body = "emptyvalue" THEN ""
    ELSE "None"

create_authenticated_session_with_service(resp, w, cookie) ==
    IF w = "unset"
    THEN NoPublicKey(cookie)
    ELSE LET req == Req("/v1/session/login", "POST", "noheader", resp)
         IN  IF resp.exc # "none"
             THEN Raise("ConnectionError", NoResponse, <<req>>, 1, cookie, 0)
             ELSE IF resp.body = "notjson"
             THEN Raise("JSONDecodeError", NoResponse, <<req>>, 1, cookie, 0)
             ELSE IF resp.body = "null"
             THEN \* response is None: response.get raises
                  Raise("AttributeError", NoResponse, <<req>>, 1, cookie, 0)
             ELSE Return("json", <<req>>, 1, LoginValue(resp.body), 0)

\* if response is None: raise Exception("Failed to login")
login(resp, w, cookie) ==
    LET r == create_authenticated_session_with_service(resp, w, cookie)
    IN  IF r.outcome = "raise"
        THEN [r EXCEPT !.nlogin = 1]
        ELSE IF r.val = "None"
        THEN Raise("Exception", NoResponse, r.reqs, r.nsigned, r.cookie, 1)
        ELSE Return("none", r.reqs, r.nsigned, r.cookie, 1)

set_referral_code(resp, w, cookie) ==
    IF w = "unset"
    THEN NoPublicKey(cookie)
    ELSE LET req == Req("/v1/referral/add-referee", "POST",
                        authenticated_headers(cookie), resp)
         IN  IF resp.exc = "none"
             THEN Return("none", <<req>>, 1, cookie, 0)
             ELSE IF resp.exc = "user already referred"
             THEN Return("none", <<req>>, 1, cookie, 0)
             ELSE Raise("ConnectionError", NoResponse, <<req>>, 1, cookie, 0)

logout(resp, cookie) ==
    UncheckedJson(Req("/v1/session/logout", "GET",
                      authenticated_headers(cookie), resp), 0, cookie)

-----------------------------------------------------------------------------
(* The state machine *)

Init ==
    /\ phase = "new"
    /\ wallet = "unset"
    /\ subaccount_id = Unset
    /\ session_cookie = "unset"
    /\ last = NoCall
    /\ http = <<>>
    /\ signed = 0
    /\ loginCalls = 0
    /\ session = "LoggedOut"
    /\ lastMsg = NoMsg
    /\ chain = IdleChain

\* the session after a call: LoggedIn once a login has returned (login() is
\* also the first call of a constructor given a key), LoggedOut once a logout
\* has returned
SessionAfter(op, r) ==
    IF r.outcome = "return" /\ r.nlogin > 0 THEN "LoggedIn"
    ELSE IF r.outcome = "return" /\ op = "logout" THEN "LoggedOut"
    ELSE session

\* a call of method op with arguments args ended as r
Call(op, args, r) ==
    /\ last' = [op |-> op, outcome |-> r.outcome, err |-> r.err,
                errResp |-> r.errResp, val |-> r.val,
                args |-> [args EXCEPT !.cookieBefore = session_cookie]]
    /\ http' = r.reqs
    /\ signed' = r.nsigned
    /\ loginCalls' = r.nlogin
    /\ session_cookie' = r.cookie
    /\ session' = SessionAfter(op, r)
    /\ chain' = IdleChain

\* the instance exists, no call is in progress and the caller has taken the
\* outcome of the last one
Ready == phase = "ready" /\ chain.waitFor = "none" /\ last.op = "none"

\* the caller takes the outcome of the last call: the record of that call
\* is dropped, the instance stays as it is
TakeOutcome ==
    /\ phase = "ready"
    /\ chain.waitFor = "none"
    /\ last.op # "none"
    /\ last' = NoCall
    /\ http' = <<>>
    /\ signed' = 0
    /\ loginCalls' = 0
    /\ lastMsg' = NoMsg
    /\ chain' = IdleChain
    /\ UNCHANGED <<phase, wallet, subaccount_id, session_cookie, session>>

\* a slip: if not (0 <= subaccount_id < 255)
SubaccountBelowMax(sub) == MinSubaccount <= sub /\ sub < MaxSubaccount

SubaccountInRange(sub) == MinSubaccount <= sub /\ sub <= MaxSubaccount

\* what follows self.subaccount_id = subaccount_id in __init__
LoginAndRefer(lresp, rresp) ==
    LET l == login(lresp, "account", "EmptyDict")
        f == set_referral_code(rresp, "account", l.cookie)
    IN  IF l.outcome = "raise"
        THEN l
        ELSE \* try: self.set_referral_code() except Exception: pass
             Return("none", l.reqs \o f.reqs, l.nsigned + f.nsigned,
                    f.cookie, l.nlogin)

\* CitrexClient(chain, env, private_key, subaccount_id)
Construct(config, private_key, sub, lresp, rresp) ==
    /\ phase = "new"
    /\ lastMsg' = NoMsg
    /\ LET args == [NoArgs EXCEPT !.keyGiven = Truthy(private_key), !.sub = sub,
                                  !.configOk = (config = "valid")]
       IN
       IF config = "missing"
       THEN /\ Call("__init__", args,
                    Raise("AttributeError", NoResponse, <<>>, 0, session_cookie, 0))
            /\ phase' = "failed"
            /\ UNCHANGED <<wallet, subaccount_id>>
       ELSE IF ~Truthy(private_key)
       THEN /\ Call("__init__", args, Return("none", <<>>, 0, "EmptyDict", 0))
            /\ phase' = "ready"
            /\ UNCHANGED <<wallet, subaccount_id>>
       ELSE IF ~SubaccountInRange(sub)
       THEN /\ Call("__init__", args,
                    Raise("UserInputValidationError", NoResponse, <<>>, 0,
                          "EmptyDict", 0))
            /\ phase' = "failed"
            /\ wallet' = "account"
            /\ UNCHANGED subaccount_id
       ELSE LET r == LoginAndRefer(lresp, rresp)
            IN  /\ Call("__init__", args, r)
                /\ phase' = IF r.outcome = "raise" THEN "failed" ELSE "ready"
                /\ wallet' = "account"
                /\ subaccount_id' = Some(sub)

Login(resp) ==
    /\ Ready
    /\ Call("login", NoArgs, login(resp, wallet, session_cookie))
    /\ lastMsg' = NoMsg
    /\ UNCHANGED <<phase, wallet, subaccount_id>>

Logout(resp) ==
    /\ Ready
    /\ Call("logout", NoArgs, logout(resp, session_cookie))
    /\ lastMsg' = NoMsg
    /\ UNCHANGED <<phase, wallet, subaccount_id>>

SetReferralCode(resp) ==
    /\ Ready
    /\ Call("set_referral_code", NoArgs,
            set_referral_code(resp, wallet, session_cookie))
    /\ lastMsg' = NoMsg
    /\ UNCHANGED <<phase, wallet, subaccount_id>>

-----------------------------------------------------------------------------
(* Signed trading actions *)

\* generate_and_sign_message(...) then send_message_to_endpoint(endpoint, ...)
SignAndSend(endpoint, method, resp, w, cookie) ==
    IF w = "unset"
    THEN NoPublicKey(cookie)
    ELSE send_message_to_endpoint(endpoint, method, TRUE, resp, 1, w, cookie)

\* the keyword arguments create_order hands to Order(...)
OrderParams(order_type, priceGiven, price, quantity, nonce, ts) ==
    [built |-> TRUE, orderType |-> order_type, hasPrice |-> priceGiven,
     price |-> IF priceGiven THEN Scale(price) ELSE <<>>,
     quantity |-> Scale(quantity),
     nonce |-> DefaultNonce(nonce, ts),
     expiration |-> Expiration(ts)]

\* a slip: if any([price is None, order_type is OrderType.LIMIT]): raise ...
PriceMissingAny(order_type, priceGiven) == ~priceGiven \/ order_type = LIMIT

\* if all([price is None, order_type is OrderType.LIMIT]): raise ...
PriceMissing(order_type, priceGiven) == ~priceGiven /\ order_type = LIMIT

CreateOrder(order_type, priceGiven, price, quantity, nonce, ts, resp) ==
    /\ Ready
    /\ LET args == [NoArgs EXCEPT !.orderType = order_type,
                                  !.priceGiven = priceGiven,
                                  !.quantity = quantity,
                                  !.price = price,
                                  !.nonce = nonce,
                                  !.ts = ts]
       IN
       IF PriceMissing(order_type, priceGiven)
       THEN /\ Call("create_order", args,
                    Raise("UserInputValidationError", NoResponse, <<>>, 0,
                          session_cookie, 0))
            /\ lastMsg' = NoMsg
       ELSE /\ Call("create_order", args,
                    SignAndSend("/v1/order", "POST", resp, wallet, session_cookie))
            /\ lastMsg' = IF wallet = "unset" THEN NoMsg
                           ELSE OrderParams(order_type, priceGiven, price,
                                            quantity, nonce, ts)
    /\ UNCHANGED <<phase, wallet, subaccount_id>>

CancelAndReplaceOrder(order_type, price, quantity, nonce, ts, resp) ==
    /\ Ready
    /\ Call("cancel_and_replace_order",
            [NoArgs EXCEPT !.orderType = order_type, !.priceGiven = TRUE,
                           !.quantity = quantity, !.price = price,
                           !.nonce = nonce, !.ts = ts],
            SignAndSend("/v1/order/cancel-and-replace", "POST", resp, wallet,
                        session_cookie))
    /\ lastMsg' = IF wallet = "unset" THEN NoMsg
                   ELSE OrderParams(order_type, TRUE, price, quantity, nonce, ts)
    /\ UNCHANGED <<phase, wallet, subaccount_id>>

CancelOrder(resp) ==
    /\ Ready
    /\ Call("cancel_order", NoArgs,
            SignAndSend("/v1/order", "DELETE", resp, wallet, session_cookie))
    /\ lastMsg' = NoMsg
    /\ UNCHANGED <<phase, wallet, subaccount_id>>

CancelAllOrders(resp) ==
    /\ Ready
    /\ Call("cancel_all_orders", NoArgs,
            SignAndSend("/v1/openOrders", "DELETE", resp, wallet, session_cookie))
    /\ lastMsg' = NoMsg
    /\ UNCHANGED <<phase, wallet, subaccount_id>>

Withdraw(resp) ==
    /\ Ready
    /\ Call("withdraw", NoArgs,
            SignAndSend("/v1/withdraw", "POST", resp, wallet, session_cookie))
    /\ lastMsg' = NoMsg
    /\ UNCHANGED <<phase, wallet, subaccount_id>>

-----------------------------------------------------------------------------
(* Queries *)

\* the route of each query that goes through send_message_to_endpoint with
\* params built from self.public_key and self.subaccount_id
AccountQueryRoute ==
    [get_account_health |-> "/v1/account-health",
     get_spot_balances  |-> "/v1/balances",
     get_position       |-> "/v1/positionRisk",
     get_open_orders    |-> "/v1/openOrders"]

AccountQueries == DOMAIN AccountQueryRoute

\* get_account_health, get_spot_balances, get_position, get_open_orders
AccountQuery(op, resp) ==
    /\ Ready
    /\ Call(op, NoArgs,
            IF wallet = "unset"
            THEN NoPublicKey(session_cookie)
            ELSE send_message_to_endpoint(AccountQueryRoute[op], "GET", TRUE,
                                          resp, 0, wallet, session_cookie))
    /\ lastMsg' = NoMsg
    /\ UNCHANGED <<phase, wallet, subaccount_id>>

\* the route of each market-data query that goes through
\* send_message_to_endpoint (authenticated is left at its default, True)
MarketQueryRoute ==
    [get_trade_history |-> "/v1/trade-history",
     get_symbol        |-> "/v1/ticker/24hr",
     get_depth         |-> "/v1/depth"]

MarketQueries == DOMAIN MarketQueryRoute

\* get_trade_history, get_symbol, get_depth
MarketQuery(op, resp) ==
    /\ Ready
    /\ Call(op, NoArgs,
            send_message_to_endpoint(MarketQueryRoute[op], "GET", TRUE, resp, 0,
                                     wallet, session_cookie))
    /\ lastMsg' = NoMsg
    /\ UNCHANGED <<phase, wallet, subaccount_id>>

\* the route of each market-data query that calls requests.get itself
PlainQueryRoute ==
    [list_products   |-> "/v1/products",
     get_product     |-> "/v1/products/{product_symbol}",
     get_server_time |-> "/v1/time",
     get_candlestick |-> "/v1/uiKlines"]

PlainQueries == DOMAIN PlainQueryRoute

\* list_products, get_product, get_server_time, get_candlestick
PlainQuery(op, resp) ==
    /\ Ready
    /\ Call(op, NoArgs,
            UncheckedJson(Req(PlainQueryRoute[op], "GET", "noheader", resp), 0,
                          session_cookie))
    /\ lastMsg' = NoMsg
    /\ UNCHANGED <<phase, wallet, subaccount_id>>

GetSessionStatus(resp) ==
    /\ Ready
    /\ Call("get_session_status", NoArgs,
            UncheckedJson(Req("/v1/session/status", "GET",
                              authenticated_headers(session_cookie), resp), 0,
                          session_cookie))
    /\ lastMsg' = NoMsg
    /\ UNCHANGED <<phase, wallet, subaccount_id>>

GetApprovedSigners(resp) ==
    /\ Ready
    /\ Call("get_approved_signers", NoArgs,
            IF wallet = "unset"
            THEN NoPublicKey(session_cookie)
            ELSE UncheckedJson(Req("/v1/approved-signers", "GET",
                                   authenticated_headers(session_cookie), resp),
                               0, session_cookie))
    /\ lastMsg' = NoMsg
    /\ UNCHANGED <<phase, wallet, subaccount_id>>

GetOrders(resp) ==
    /\ Ready
    /\ Call("get_orders", NoArgs,
            IF wallet = "unset"
            THEN NoPublicKey(session_cookie)
            ELSE CheckedJson(Req("/v1/orders", "GET",
                                 authenticated_headers(session_cookie), resp),
                             0, session_cookie))
    /\ lastMsg' = NoMsg
    /\ UNCHANGED <<phase, wallet, subaccount_id>>

\* a caller's own use of the dispatcher, with any route
SendMessageToEndpoint(endpoint, authenticated, resp) ==
    /\ Ready
    /\ Call("send_message_to_endpoint", [NoArgs EXCEPT !.endpoint = endpoint],
            send_message_to_endpoint(endpoint, "GET", authenticated, resp, 0,
                                     wallet, session_cookie))
    /\ lastMsg' = NoMsg
    /\ UNCHANGED <<phase, wallet, subaccount_id>>

-----------------------------------------------------------------------------
(* The deposit workflow and receipt polling *)

\* what eth.get_transaction_receipt answers: TransactionNotFound raised,
\* None returned, a receipt with status 1 or 0, or another error of the node
NodeAnswers == {"NotFound", "None", "Receipt1", "Receipt0", "RpcError"}

\* what a call or a transaction sent to the node answers
RpcAnswers == {"ok", "RpcError"}

\* a call on the chain that is under way or has ended
ChainCall(op, outcome, err, val) ==
    [op |-> op, outcome |-> outcome, err |-> err, errResp |-> NoResponse,
     val |-> val, args |-> [NoArgs EXCEPT !.cookieBefore = session_cookie]]

\* a slip: the approval is broadcast and, with no wait for its receipt, the
\* deposit transaction after it
StartWaitSkippingApproval(c, tx) ==
    [c EXCEPT !.waitFor = "deposit",
              !.txs = IF tx = "approve" THEN c.txs \o <<"approve", "deposit">>
                      ELSE Append(c.txs, tx),
              !.T = DefaultTimeout, !.timeout = DefaultTimeout,
              !.lookups = 0, !.pendingOnly = TRUE, !.lastAnswer = "none"]

\* the start of a wait_for_transaction(result) with the default timeout
StartWait(c, tx) ==
    [c EXCEPT !.waitFor = tx, !.txs = Append(c.txs, tx),
              !.T = DefaultTimeout, !.timeout = DefaultTimeout,
              !.lookups = 0, !.pendingOnly = TRUE, !.lastAnswer = "none"]

\* a slip: if approved_amount <= required_wei:
ApprovalNeededOrEqual(approved_amount, required_wei) ==
    ~Less(required_wei, approved_amount)

\* if approved_amount < required_wei:
ApprovalNeeded(approved_amount, required_wei) == Less(approved_amount, required_wei)

\* a slip: return receipt is not None
ReceiptPresent(answer) == "true"

\* return receipt["status"] == 1
ReceiptSuccess(answer) == IF answer = "Receipt1" THEN "true" ELSE "false"

\* a slip: timeout = max(timeout - 2, 0)
CountdownByTwo(timeout) == IF timeout >= 2 THEN timeout - 2 ELSE 0

\* the countdown after a lookup that gave no receipt: timeout -= 1
Countdown(timeout) == timeout - 1

\* a slip: except Exception:
CaughtAny(answer) == answer \in {"NotFound", "RpcError"}

\* except TransactionNotFound:
Caught(answer) == answer = "NotFound"

\* a slip: if timeout <= 1: raise Exception("Timeout")
TimedOutEarly(timeout) == timeout <= 1

\* if timeout == 0: raise Exception("Timeout")
TimedOut(timeout) == timeout = 0

\* deposit(...) up to its first wait: the allowance is read, and the approval
\* or (allowance sufficient) the deposit transaction is broadcast
Deposit(quantity, rpc, approved_amount, send) ==
    /\ Ready
    /\ http' = <<>>
    /\ signed' = 0
    /\ loginCalls' = 0
    /\ lastMsg' = NoMsg
    /\ LET required_wei == Scale(quantity)
           c == [IdleChain EXCEPT !.required = required_wei]
           seen == [c EXCEPT !.allowance = approved_amount]
       IN
       IF wallet = "unset"
       THEN /\ last' = ChainCall("deposit", "raise", "AttributeError", "none")
            /\ chain' = c
       ELSE IF rpc = "RpcError"
       THEN /\ last' = ChainCall("deposit", "raise", "RpcError", "none")
            /\ chain' = c
       ELSE IF send = "RpcError"
       THEN /\ last' = ChainCall("deposit", "raise", "RpcError", "none")
            /\ chain' = seen
       ELSE /\ last' = ChainCall("deposit", "running", "none", "none")
            /\ chain' = StartWait(seen,
                            IF ApprovalNeeded(approved_amount, required_wei)
                            THEN "approve" ELSE "deposit")
    /\ UNCHANGED <<phase, wallet, subaccount_id, session_cookie, session>>

\* a caller's own wait_for_transaction(txn_hash, timeout)
WaitForTransaction(timeout) ==
    /\ Ready
    /\ http' = <<>>
    /\ signed' = 0
    /\ loginCalls' = 0
    /\ lastMsg' = NoMsg
    /\ last' = ChainCall("wait_for_transaction", "running", "none", "none")
    /\ chain' = [IdleChain EXCEPT !.waitFor = "direct", !.T = timeout,
                                  !.timeout = timeout]
    /\ UNCHANGED <<phase, wallet, subaccount_id, session_cookie, session>>

\* the call in progress ends
EndChainCall(c, outcome, err, val) ==
    /\ last' = [last EXCEPT !.outcome = outcome, !.err = err, !.val = val]
    /\ chain' = [c EXCEPT !.waitFor = "none"]

\* one turn of the loop of wait_for_transaction, and what the caller of
\* wait_for_transaction does when the loop ends on this turn
Poll(answer) ==
    /\ chain.waitFor # "none"
    /\ IF TimedOut(chain.timeout)
       THEN EndChainCall(chain, "raise", "Timeout", "none")
       ELSE LET c == [chain EXCEPT !.lookups = @ + 1,
                                   !.nodeErrors = IF answer = "RpcError"
                                                  THEN @ + 1 ELSE @]
                e == [c EXCEPT !.lastAnswer = answer]
            IN
            IF Caught(answer)
            THEN \* except TransactionNotFound: time.sleep(1)
                 /\ chain' = [c EXCEPT !.timeout = Countdown(@)]
                 /\ UNCHANGED last
            ELSE IF answer = "RpcError"
            THEN \* any other exception leaves wait_for_transaction
                 EndChainCall(e, "raise", "RpcError", "none")
            ELSE IF answer = "None"
            THEN /\ chain' = [c EXCEPT !.timeout = Countdown(@),
                                       !.pendingOnly = FALSE]
                 /\ UNCHANGED last
            ELSE IF chain.waitFor = "approve"
            THEN \* deposit goes on: the deposit transaction is broadcast
                 LET d == [c EXCEPT !.approveReceipt = answer]
                 IN  \E send \in RpcAnswers :
                        IF send = "RpcError"
                        THEN EndChainCall(d, "raise", "RpcError", "none")
                        ELSE /\ chain' = StartWait(d, "deposit")
                             /\ UNCHANGED last
            ELSE EndChainCall(e, "return", "none", ReceiptSuccess(answer))
    /\ UNCHANGED <<phase, wallet, subaccount_id, session_cookie, http, signed,
                   loginCalls, session, lastMsg>>

Configs == {"valid", "missing"}

SubaccountArgs == {MinSubaccount - 1, MinSubaccount, MaxSubaccount, MaxSubaccount + 1}

Next ==
    \/ TakeOutcome
    \/ phase = "new" /\ \E c \in Configs, k \in PrivateKeys, sub \in SubaccountArgs,
          l \in LoginResponses, r \in Responses : Construct(c, k, sub, l, r)
    \/ Ready /\ \E l \in LoginResponses : Login(l)
    \/ Ready /\ \E r \in Responses : Logout(r)
    \/ Ready /\ \E r \in Responses : SetReferralCode(r)
    \/ Ready /\ \E ot \in OrderTypes, pg \in BOOLEAN, p \in OrderQuantities,
          q \in OrderQuantities, n \in Nonces, t \in Timestamps, r \in Responses :
            CreateOrder(ot, pg, p, q, n, t, r)
    \/ Ready /\ \E ot \in OrderTypes, p \in OrderQuantities, q \in OrderQuantities,
          n \in Nonces, t \in Timestamps, r \in Responses :
            CancelAndReplaceOrder(ot, p, q, n, t, r)
    \/ Ready /\ \E r \in Responses : CancelOrder(r)
    \/ Ready /\ \E r \in Responses : CancelAllOrders(r)
    \/ Ready /\ \E r \in Responses : Withdraw(r)
    \/ Ready /\ \E op \in AccountQueries, r \in Responses : AccountQuery(op, r)
    \/ Ready /\ \E op \in MarketQueries, r \in Responses : MarketQuery(op, r)
    \/ Ready /\ \E op \in PlainQueries, r \in Responses : PlainQuery(op, r)
    \/ Ready /\ \E r \in Responses : GetSessionStatus(r)
    \/ Ready /\ \E r \in Responses : GetApprovedSigners(r)
    \/ Ready /\ \E r \in Responses : GetOrders(r)
    \/ Ready /\ \E e \in private_functions \cup public_functions \cup UnknownRoutes,
          a \in BOOLEAN, r \in Responses : SendMessageToEndpoint(e, a, r)
    \/ Ready /\ \E q \in Quantities, rpc \in RpcAnswers, a \in Allowances,
          send \in RpcAnswers : Deposit(q, rpc, a, send)
    \/ Ready /\ \E t \in 0..MaxTimeout : WaitForTransaction(t)
    \/ chain.waitFor # "none" /\ \E n \in NodeAnswers : Poll(n)

Spec == Init /\ [][Next]_vars

-----------------------------------------------------------------------------
(* Properties *)

\* a deposit() call has ended, one way or the other
DepositEnded == last.op = "deposit" /\ last.outcome # "running"

\* the node has answered the allowance query of the deposit() call
AllowanceKnown == last.op = "deposit" /\ chain.allowance # <<>>

\* C1, as claimed: when deposit() has ended without an error of the node,
\* exactly one transaction (the deposit) was broadcast if the allowance was
\* at least the required amount, and exactly two (the approval, then the
\* deposit) if it was less.
C1_AsClaimed ==
    (DepositEnded /\ AllowanceKnown /\ last.err # "RpcError")
        => chain.txs = IF Less(chain.allowance, chain.required)
                       THEN <<"approve", "deposit">>
                       ELSE <<"deposit">>

\* C1, amended: at every moment of a deposit() call at most two transactions
\* have been broadcast, the approval (if any) first; with an allowance of at
\* least the required amount no approval is ever broadcast; and when
\* deposit() returns normally exactly one transaction (the deposit) was
\* broadcast if the allowance sufficed and exactly two (approval, deposit) if
\* it did not.
C1_Broadcasts ==
    AllowanceKnown =>
        /\ Less(chain.allowance, chain.required)
              => chain.txs \in {<<>>, <<"approve">>, <<"approve", "deposit">>}
        /\ ~Less(chain.allowance, chain.required)
              => chain.txs \in {<<>>, <<"deposit">>}
        /\ last.outcome = "return"
              => chain.txs = IF Less(chain.allowance, chain.required)
                             THEN <<"approve", "deposit">>
                             ELSE <<"deposit">>

\* C1's case: a deposit() that needed an approval has returned
C1_Witness ==
    /\ DepositEnded
    /\ last.outcome = "return"
    /\ Less(chain.allowance, chain.required)
    /\ chain.txs = <<"approve", "deposit">>

\* a caller's wait_for_transaction(txn_hash, timeout=T) has ended
WaitEnded == last.op = "wait_for_transaction" /\ last.outcome # "running"

\* C2: a wait_for_transaction with T > 0 that saw k < T answers "not found"
\* and then a receipt with status 1 returns true; one that saw "not found"
\* on every poll ends with the timeout error, after T polls and without a
\* receipt.
C2_PollingOutcome ==
    (WaitEnded /\ chain.T > 0 /\ chain.pendingOnly) =>
        /\ (chain.lastAnswer = "Receipt1" /\ chain.lookups - 1 < chain.T)
              => last.outcome = "return" /\ last.val = "true"
        /\ chain.lastAnswer = "none"
              => /\ last.outcome = "raise"
                 /\ last.err = "Timeout"
                 /\ chain.lookups = chain.T

\* C2's case: two answers "not found", then a successful receipt
C2_Witness ==
    /\ WaitEnded
    /\ chain.pendingOnly
    /\ chain.lookups = 3
    /\ chain.lastAnswer = "Receipt1"
    /\ last.val = "true"

\* C3, as claimed: on a client constructed without a key the dispatcher
\* lets every PUBLIC route through (the request is sent) and refuses every
\* PRIVATE route with the user-input validation error, before any request.
C3_AsClaimed ==
    (last.op = "send_message_to_endpoint" /\ wallet = "unset") =>
        /\ last.args.endpoint \in public_functions => Len(http) = 1
        /\ last.args.endpoint \in private_functions
              => /\ last.outcome = "raise"
                 /\ last.err = "UserInputValidationError"
                 /\ http = <<>>

\* C4: create_order of a LIMIT order without a price fails with the
\* validation error, nothing signed and nothing sent; of a LIMIT_MAKER or
\* MARKET order without a price it passes validation, and the Order message
\* it builds (a client with a key builds one) has no price field.
C4_LimitNeedsPrice ==
    (last.op = "create_order" /\ ~last.args.priceGiven) =>
        IF last.args.orderType = LIMIT
        THEN /\ last.outcome = "raise"
             /\ last.err = "UserInputValidationError"
             /\ signed = 0
             /\ http = <<>>
             /\ ~lastMsg.built
        ELSE /\ last.err # "UserInputValidationError"
             /\ wallet = "account"
                   => /\ lastMsg.built
                      /\ lastMsg.orderType = last.args.orderType
                      /\ signed = 1
             /\ lastMsg.built => ~lastMsg.hasPrice /\ lastMsg.price = <<>>

\* C4's case: a MARKET order without a price was built and signed
C4_Witness ==
    /\ last.op = "create_order"
    /\ last.args.orderType = MARKET
    /\ ~last.args.priceGiven
    /\ lastMsg.built
    /\ ~lastMsg.hasPrice
    /\ Len(http) = 1

\* C5, as claimed: a construction with a subaccount id outside [0, 255]
\* always fails, and sends no login request.
C5_AsClaimed ==
    (last.op = "__init__" /\ (last.args.sub < 0 \/ last.args.sub > 255))
        => last.outcome = "raise" /\ http = <<>>

\* C5, amended: a construction with a private key (and a configuration) and
\* a subaccount id outside [0, 255] fails with the validation error before
\* any login request; with subaccount id 0 or 255 it passes the range check
\* and goes on to the login request; without a private key the subaccount id
\* is neither checked nor stored.  No instance holds a subaccount id outside
\* [0, 255].
C5_SubaccountRange ==
    /\ subaccount_id # Unset => 0 <= subaccount_id[1] /\ subaccount_id[1] <= 255
    /\ (last.op = "__init__" /\ last.args.configOk) =>
          /\ (last.args.keyGiven /\ (last.args.sub < 0 \/ last.args.sub > 255))
                => /\ last.outcome = "raise"
                   /\ last.err = "UserInputValidationError"
                   /\ http = <<>>
                   /\ phase = "failed"
          /\ (last.args.keyGiven /\ last.args.sub \in {0, 255})
                => /\ last.err # "UserInputValidationError"
                   /\ Len(http) >= 1
                   /\ http[1].endpoint = "/v1/session/login"
                   /\ subaccount_id = Some(last.args.sub)
          /\ ~last.args.keyGiven
                => /\ last.outcome = "return"
                   /\ subaccount_id = Unset
                   /\ http = <<>>

\* C5's case: a construction with a key and subaccount id 256 was refused
C5_Witness ==
    /\ last.op = "__init__"
    /\ last.args.keyGiven
    /\ last.args.sub = 256
    /\ last.err = "UserInputValidationError"
    /\ phase = "failed"

\* C6, as claimed: when login() returns normally the stored session
\* credential is a usable token (neither missing nor empty).
C6_AsClaimed ==
    (last.op = "login" /\ last.outcome = "return") => session_cookie \in Tokens

\* C7, as claimed: once logout() has returned and until a login, the client
\* holds no credential of an earlier login, and no request it sends
\* carries one.
C7_AsClaimed ==
    session = "LoggedOut" =>
        /\ session_cookie \notin Tokens
        /\ last.op # "logout"
              => \A i \in 1..Len(http) : http[i].cookie \notin Tokens

\* the i-th request of the last call is a referral binding that failed for
\* a reason other than "already referred"
ReferralFailed(i) ==
    /\ http[i].endpoint = "/v1/referral/add-referee"
    /\ http[i].resp.exc = "connection refused"

\* C8, as claimed: a construction with a key that completes has attempted
\* the referral binding exactly once, after the login; and a construction
\* whose referral binding failed for another reason than "already referred"
\* does not complete: the failure reaches the caller.
C8_AsClaimed ==
    (last.op = "__init__" /\ last.args.keyGiven) =>
        /\ last.outcome = "return"
              => /\ Len(http) = 2
                 /\ http[1].endpoint = "/v1/session/login"
                 /\ http[2].endpoint = "/v1/referral/add-referee"
        /\ (\E i \in 1..Len(http) : ReferralFailed(i)) => last.outcome = "raise"

\* the i-th request of the last call was answered with a non-success status
NonSuccess(i) == http[i].resp.exc = "none" /\ http[i].resp.status # 200

\* C9, as claimed: a call of any method whose HTTP request was answered
\* with a non-success status fails, with an error that carries the status
\* code and the body of that answer.
C9_AsClaimed ==
    \A i \in 1..Len(http) :
        NonSuccess(i) => last.outcome = "raise" /\ last.errResp = http[i].resp

\* the authenticated operations
AuthenticatedOps ==
    {"create_order", "cancel_order", "cancel_all_orders",
     "cancel_and_replace_order", "withdraw", "get_orders",
     "get_approved_signers"} \cup AccountQueries

\* C10, as claimed: a call of an authenticated operation sends at most one
\* HTTP request, never calls login, leaves the stored credential as it was,
\* and fails when the answer is a failure (401 included).
C10_AsClaimed ==
    last.op \in AuthenticatedOps =>
        /\ Len(http) <= 1
        /\ loginCalls = 0
        /\ session_cookie = last.args.cookieBefore
        /\ \A i \in 1..Len(http) : NonSuccess(i) => last.outcome = "raise"

\* an Order message was built by the last call
OrderBuilt ==
    /\ last.op \in {"create_order", "cancel_and_replace_order"}
    /\ lastMsg.built

\* (t + 86400000) x 1000 for the readings t of the clock, written out
ExpirationOf(t) ==
    IF t = <<1, 7, 0, 0, 0, 0, 0, 0, 0, 0, 0, 0, 0>>
    THEN <<1, 7, 0, 0, 0, 8, 6, 4, 0, 0, 0, 0, 0, 0, 0, 0>>
    ELSE <<1, 7, 0, 0, 0, 8, 6, 3, 9, 9, 9, 9, 9, 0, 0, 0>>

\* field = q x 10^18, that is field x 10^e = m x 10^18 for q = m x 10^-e
ExactlyScaled(field, q) == Shift(field, q.e) = Shift(Digits(q.m), 18)

\* field is the integer part of q x 10^18:
\* field x 10^e <= m x 10^18 < (field + 1) x 10^e
IntegerPart(field, q) ==
    /\ ~Less(Shift(Digits(q.m), 18), Shift(field, q.e))
    /\ Less(Shift(Digits(q.m), 18), Shift(Plus(field, <<1>>), q.e))

\* C11, as claimed: in every order built by create_order or
\* cancel_and_replace_order at clock reading t, the nonce is the caller's
\* nonce when that is not 0 and t when it is 0, the expiration is
\* (t + 86400000) x 1000, the quantity is exactly quantity x 10^18 and the
\* price, when one is given, exactly price x 10^18.
C11_AsClaimed ==
    OrderBuilt =>
        /\ lastMsg.nonce = IF last.args.nonce = <<0>> THEN last.args.ts
                           ELSE last.args.nonce
        /\ lastMsg.expiration = ExpirationOf(last.args.ts)
        /\ ExactlyScaled(lastMsg.quantity, last.args.quantity)
        /\ lastMsg.hasPrice => ExactlyScaled(lastMsg.price, last.args.price)

\* C11, amended: nonce and expiration as claimed; the quantity and the price
\* (when given) are exactly the argument x 10^18 when the argument has at
\* most 18 decimal places, and the integer part of the argument x 10^18
\* (the digits after the 18th place are dropped) when it has more.
C11_OrderFields ==
    OrderBuilt =>
        /\ lastMsg.nonce = IF last.args.nonce = <<0>> THEN last.args.ts
                           ELSE last.args.nonce
        /\ lastMsg.expiration = ExpirationOf(last.args.ts)
        /\ IF last.args.quantity.e <= 18
           THEN ExactlyScaled(lastMsg.quantity, last.args.quantity)
           ELSE IntegerPart(lastMsg.quantity, last.args.quantity)
        /\ lastMsg.hasPrice =>
              IF last.args.price.e <= 18
              THEN ExactlyScaled(lastMsg.price, last.args.price)
              ELSE IntegerPart(lastMsg.price, last.args.price)

\* C11's case: an order of quantity 1.5 at price 20000.25 with the default
\* nonce was built when the clock read 1699999999999
C11_Witness ==
    /\ OrderBuilt
    /\ last.args.nonce = <<0>>
    /\ lastMsg.nonce = <<1, 6, 9, 9, 9, 9, 9, 9, 9, 9, 9, 9, 9>>
    /\ lastMsg.expiration = <<1, 7, 0, 0, 0, 8, 6, 3, 9, 9, 9, 9, 9, 0, 0, 0>>
    /\ lastMsg.quantity = <<1, 5, 0, 0, 0, 0, 0, 0, 0, 0, 0, 0, 0, 0, 0, 0, 0, 0, 0>>
    /\ lastMsg.hasPrice
    /\ lastMsg.price = <<2, 0, 0, 0, 0, 2, 5, 0, 0, 0, 0, 0, 0, 0, 0, 0, 0, 0, 0, 0, 0, 0, 0>>

\* a receipt, of either status
Receipts == {"Receipt1", "Receipt0"}

\* the transactions broadcast so far
Broadcast(tx) == \E i \in 1..Len(chain.txs) : chain.txs[i] = tx

\* C12: in deposit(), with an allowance below the required amount, the
\* deposit transaction is broadcast only after a receipt of the approval
\* was obtained; when the wait for that receipt ends in a timeout or in an
\* error of the node, deposit() fails with that error and the deposit
\* transaction is not broadcast.  No transaction is broadcast before the
\* allowance was read.
C12_ApprovalBeforeDeposit ==
    last.op = "deposit" =>
        /\ chain.txs # <<>> => chain.allowance # <<>>
        /\ (AllowanceKnown /\ Less(chain.allowance, chain.required)) =>
              /\ Broadcast("deposit")
                    => /\ chain.approveReceipt \in Receipts
                       /\ chain.txs = <<"approve", "deposit">>
              /\ (DepositEnded /\ chain.approveReceipt = "none")
                    => /\ last.outcome = "raise"
                       /\ ~Broadcast("deposit")
                       /\ chain.txs = <<"approve">>
                             => \/ /\ last.err = "Timeout"
                                   /\ chain.lastAnswer = "none"
                                   /\ chain.lookups = chain.T
                                \/ /\ last.err = "RpcError"
                                   /\ chain.lastAnswer = "RpcError"

\* C12's case: the approval's receipt was never found, deposit() failed
\* with the timeout error and only the approval was broadcast
C12_Witness ==
    /\ DepositEnded
    /\ Less(chain.allowance, chain.required)
    /\ chain.txs = <<"approve">>
    /\ chain.approveReceipt = "none"
    /\ last.err = "Timeout"
    /\ chain.lookups = DefaultTimeout

\* C13: deposit() returns true exactly when the receipt of the deposit
\* transaction has status 1, and returns false (it does not raise) when that
\* receipt has status 0.  The status of the approval's receipt is not read:
\* after an approval receipt of either status the deposit transaction is
\* sent to the node, and the value returned is that of the deposit's
\* receipt alone.
C13_DepositResult ==
    last.op = "deposit" =>
        /\ last.outcome = "return"
              => /\ chain.lastAnswer \in Receipts
                 /\ chain.waitFor = "none"
                 /\ Broadcast("deposit")
                 /\ last.val = IF chain.lastAnswer = "Receipt1" THEN "true"
                               ELSE "false"
        /\ (DepositEnded /\ chain.lastAnswer \in Receipts)
              => last.outcome = "return"
        /\ chain.approveReceipt \in Receipts
              => \/ Broadcast("deposit")
                 \/ /\ DepositEnded
                    /\ last.err = "RpcError"
                    /\ chain.lastAnswer = "none"

\* C13's case: the approval was reverted, the deposit went through and
\* deposit() returned true
C13_Witness ==
    /\ DepositEnded
    /\ chain.approveReceipt = "Receipt0"
    /\ chain.txs = <<"approve", "deposit">>
    /\ chain.lastAnswer = "Receipt1"
    /\ last.outcome = "return"
    /\ last.val = "true"

\* C14: a lookup answered by an error of the node other than "transaction
\* not found" ends the call with that error on that very poll: the
\* countdown is not decremented for it, no lookup follows it, and the call
\* neither ends with the timeout error nor returns a value.
C14_NodeErrorPropagates ==
    chain.nodeErrors > 0 =>
        /\ chain.nodeErrors = 1
        /\ chain.waitFor = "none"
        /\ chain.lastAnswer = "RpcError"
        /\ last.outcome = "raise"
        /\ last.err = "RpcError"
        /\ last.val = "none"
        /\ chain.timeout = chain.T - (chain.lookups - 1)

\* C14's case: a caller's wait saw "not found" once, then an error of the
\* node, with polls to spare
C14_Witness ==
    /\ WaitEnded
    /\ chain.nodeErrors = 1
    /\ chain.lookups = 2
    /\ chain.timeout > 0
    /\ last.err = "RpcError"

\* C15: a wait_for_transaction with timeout T >= 0 makes at most T lookups:
\* every lookup without a receipt ("not found" or an empty receipt) takes
\* exactly one from the countdown, a receipt ends the loop on the poll that
\* returns it, the timeout error comes after exactly T lookups without a
\* receipt, and with T = 0 it comes without any lookup.
C15_Countdown ==
    /\ chain.lookups <= chain.T
    /\ chain.timeout >= 0
    /\ chain.waitFor # "none" => chain.timeout = chain.T - chain.lookups
    /\ WaitEnded =>
          /\ chain.lastAnswer \in Receipts
                => /\ last.outcome = "return"
                   /\ chain.lookups >= 1
                   /\ chain.timeout = chain.T - (chain.lookups - 1)
          /\ chain.lastAnswer = "none"
                => /\ last.outcome = "raise"
                   /\ last.err = "Timeout"
                   /\ chain.lookups = chain.T
                   /\ chain.timeout = 0
          /\ chain.T = 0
                => /\ last.err = "Timeout"
                   /\ chain.lookups = 0

\* C15's case: a wait with T = 2 saw an empty receipt and "not found", and
\* ended with the timeout error after two lookups
C15_Witness ==
    /\ WaitEnded
    /\ chain.T = 2
    /\ ~chain.pendingOnly
    /\ chain.lookups = 2
    /\ last.err = "Timeout"

=============================================================================
